---- MODULE Spec2Model ----
(***************************************************************************)
(* Ripple Realms: the quest/progression engine (quests.py), the zone       *)
(* registry (zones.py), the minigames (minigames.py), the dashboard's zone *)
(* unlock (dashboard.py), realm creation (app.py) and the JSON store       *)
(* (supabase_client.py).                                                   *)
(*                                                                         *)
(* One action is one Streamlit script run triggered by one button click.   *)
(* The values the widgets return in that run (which button was pressed,    *)
(* the radio label, the typed answer) and the values of random.choice,     *)
(* random.shuffle and time.perf_counter are the inputs of the action.      *)
(* Python dicts are functions whose DOMAIN is the set of keys; lists are   *)
(* sequences; a word is the sequence of its characters.                    *)
(***************************************************************************)
EXTENDS Integers, Sequences, FiniteSets, TLC

VARIABLES
  data,           \* supabase_client: the content of data.json, [realms |-> <<...>>]
  session_state,  \* st.session_state: key -> value
  ui,             \* what the last script run rendered and reported
  sel             \* the last direct call of a function: inputs and result

vars == <<data, session_state, ui, sel>>

----------------------------------------------------------------------------
(* Bounds of the model (inputs of the environment, not program constants). *)

\* random.shuffle: the scrambled presentation is one of the rotations of the
\* word by 0..MaxRotate places
MaxRotate == 1
\* time.perf_counter() returns a whole number of seconds in 0..MaxClock
MaxClock == 1
\* the selector is called directly on quest lists of at most MaxQuests quests,
\* each with at most MaxReqs requirements, and completed lists of at most
\* MaxCompleted ids
MaxQuests == 2
MaxReqs == 1
MaxCompleted == 2

----------------------------------------------------------------------------
(* Python values *)

\* None, where the other values are strings
None == "None"
\* None, where the other values are dicts
NoneDict == [py_none |-> TRUE]
\* {}
EmptyDict == <<>>

\* d.get(k, default)
Get(d, k, default) == IF k \in DOMAIN d THEN d[k] ELSE default

\* d[k] = v
SetKey(d, k, v) == [x \in (DOMAIN d) \cup {k} |-> IF x = k THEN v ELSE d[x]]

\* del d[k] for every k of ks that is a key of d
DelKeys(d, ks) == [x \in (DOMAIN d) \ ks |-> d[x]]

\* x in lst
InList(x, lst) == \E i \in 1..Len(lst) : lst[i] = x

----------------------------------------------------------------------------
(* zones.py *)

ZONE_ORDER == <<"village", "forest", "temple", "tower", "ruins">>

\* ZONE_ORDER.index(current), 1-based; 0 stands for ValueError
ZoneIndex(current) ==
  IF InList(current, ZONE_ORDER)
  THEN CHOOSE i \in 1..Len(ZONE_ORDER) :
         /\ ZONE_ORDER[i] = current
         /\ \A j \in 1..(i - 1) : ZONE_ORDER[j] # current
  ELSE 0

\* mutant of next_zone: after the last zone comes the first
next_zone_wraps(current) ==
  LET idx == ZoneIndex(current)
  IN IF idx = 0 THEN None ELSE ZONE_ORDER[(idx % Len(ZONE_ORDER)) + 1]

\* mutants of next_zone: the title of the next zone instead of its name; the
\* zone after the next
next_zone_titled(current) ==
  LET idx == ZoneIndex(current)
  IN IF idx = 0 THEN None
     ELSE IF idx < Len(ZONE_ORDER) THEN "The " \o ZONE_ORDER[idx + 1]
     ELSE None

next_zone_skips(current) ==
  LET idx == ZoneIndex(current)
  IN IF idx = 0 THEN None
     ELSE IF idx + 1 < Len(ZONE_ORDER) THEN ZONE_ORDER[idx + 2]
     ELSE IF idx < Len(ZONE_ORDER) THEN ZONE_ORDER[idx + 1]
     ELSE None

\* mutant of next_zone: a value that is no zone is taken for the one before
\* the first
next_zone_unknown_first(current) ==
  LET idx == ZoneIndex(current)
  IN IF idx < Len(ZONE_ORDER) THEN ZONE_ORDER[idx + 1] ELSE None

next_zone(current) ==
  LET idx == ZoneIndex(current)
  IN IF idx = 0 THEN None
     ELSE IF idx < Len(ZONE_ORDER) THEN ZONE_ORDER[idx + 1]
     ELSE None

\* the realm after the call, and the value returned
unlock_next_zone_for_realm(realm) ==
  LET current  == Get(Get(realm, "realm_state", EmptyDict), "zone", None)
      new_zone == next_zone(current)
  IN IF new_zone # None
     THEN [realm  |-> [realm EXCEPT !.realm_state =
                         SetKey(realm.realm_state, "zone", new_zone)],
           result |-> TRUE]
     ELSE [realm |-> realm, result |-> FALSE]

----------------------------------------------------------------------------
(* quests.py: the catalog *)

QUESTS_village ==
  <<
    [id |-> "flickering_orb",
     title |-> "The Flickering Orb",
     description |-> "A glowing orb hovers over your village. It pulses gently, watching you.",
     image |-> "orb.png",
     choices |-> <<
                   [label |-> "Investigate the orb",
                    effects |-> [npc |-> [name |-> "Watcher Orb", type |-> "mystic"]],
                    message |-> "The Watcher Orb joins your realm and illuminates dark corners."],
                   [label |-> "Speak to it",
                    effects |-> [trait |-> "clever"],
                    message |-> "The orb whispers knowledge into your mind. You feel clever."],
                   [label |-> "Ignore it",
                    effects |-> EmptyDict,
                    message |-> "You walk away. Nothing changes, but you might have missed something..."]
                 >>,
     requirements |-> <<>>],
    [id |-> "lost_creature",
     title |-> "The Lost Creature",
     description |-> "A small lost creature appears at the edge of the village. It looks scared and hungry.",
     image |-> "seed_avatar.png",
     choices |-> <<
                   [label |-> "Comfort the creature",
                    effects |-> [npc |-> [name |-> "Grateful Creature", type |-> "companion"], trait |-> "kind"],
                    message |-> "The creature warms to you and pledges loyalty. You become kinder."],
                   [label |-> "Chase it away",
                    effects |-> [trait |-> "hothead"],
                    message |-> "You scare it off. You feel your temper growing."],
                   [label |-> "Offer it food",
                    minigame |-> [type |-> "unscramble", words |-> << <<"h", "e", "r", "b", "s">>, <<"b", "r", "e", "a", "d">>, <<"g", "r", "a", "i", "n">> >>],
                    effects |-> [npc |-> [name |-> "Thankful Creature", type |-> "companion"]],
                    message |-> "Your generosity pays off; the creature becomes your friend.",
                    failure_message |-> "You fumble with your supplies and the creature wanders off disappointed."]
                 >>,
     requirements |-> <<>>]
  >>

QUESTS_forest ==
  <<
    [id |-> "whispers_in_trees",
     title |-> "Whispers in the Trees",
     description |-> "As you wander the forest, the trees whisper secrets in an ancient tongue.",
     image |-> "tree_sprite.png",
     choices |-> <<
                   [label |-> "Follow the whispers",
                    effects |-> [npc |-> [name |-> "Whisper Sprite", type |-> "guide"], trait |-> "curious"],
                    message |-> "A sprite appears and promises to guide you. Your curiosity grows."],
                   [label |-> "Meditate",
                    effects |-> [trait |-> "mysterious"],
                    message |-> "You sit beneath the trees and absorb their wisdom. You become more mysterious."],
                   [label |-> "Ignore the whispers",
                    effects |-> EmptyDict,
                    message |-> "You ignore the voices. The forest remains silent around you."]
                 >>,
     requirements |-> <<>>],
    [id |-> "hidden_path",
     title |-> "The Hidden Path",
     description |-> "A narrow path covered in vines leads deeper into the woods. Rumours say it hides great treasure.",
     image |-> "forest.png",
     choices |-> <<
                   [label |-> "Clear the path",
                    minigame |-> [type |-> "unscramble", words |-> << <<"v", "i", "n", "e">>, <<"l", "e", "a", "f">>, <<"r", "o", "o", "t">> >>],
                    effects |-> [trait |-> "bold"],
                    message |-> "You bravely hack away the vines and feel bolder for your efforts.",
                    failure_message |-> "You struggle to clear the vines and decide to turn back, feeling drained."],
                   [label |-> "Walk away",
                    effects |-> EmptyDict,
                    message |-> "You leave the mysterious path untouched for another day."]
                 >>,
     requirements |-> <<>>]
  >>

QUESTS_temple ==
  <<
    [id |-> "mirror_trials",
     title |-> "Mirror Trials",
     description |-> "You stand before a mirror that reflects not your face but your inner self. It asks: Are you content with who you've become?",
     image |-> "temple.png",
     choices |-> <<
                   [label |-> "Yes",
                    effects |-> [trait |-> "confident"],
                    message |-> "You embrace your journey. Confidence flows through you."],
                   [label |-> "No",
                    effects |-> [trait |-> "humble"],
                    message |-> "You vow to grow and change. Humility guides you."],
                   [label |-> "Smash the mirror",
                    effects |-> [trait |-> "hothead"],
                    message |-> "You shatter the mirror. Shards scatter as your temper flares."]
                 >>,
     requirements |-> <<>>],
    [id |-> "guardians_riddle",
     title |-> "Guardian's Riddle",
     description |-> "A stone guardian blocks your path and asks: 'I speak without mouth and hear without ears. I have no body, but I come alive with wind. What am I?'",
     image |-> "temple.png",
     choices |-> <<
                   [label |-> "Answer: Echo",
                    effects |-> [trait |-> "wise"],
                    message |-> "The guardian nods and allows you passage. Wisdom fills you."],
                   [label |-> "Answer: Sound",
                    effects |-> EmptyDict,
                    message |-> "The statue remains silent. Perhaps another answer?"],
                   [label |-> "Answer: Silence",
                    effects |-> EmptyDict,
                    message |-> "A whisper passes through the air. The guardian still blocks your way."]
                 >>,
     requirements |-> <<>>]
  >>

QUESTS_tower ==
  <<
    [id |-> "arcane_rhythm",
     title |-> "Arcane Rhythm",
     description |-> "In the tower's heart, glowing runes pulse to a rhythm. You must align with their tempo.",
     image |-> "tower.png",
     choices |-> <<
                   [label |-> "Start the reflex trial",
                    minigame |-> [type |-> "reflex"],
                    effects |-> [trait |-> "agile"],
                    message |-> "Your quick reactions impress the tower spirits. You feel more agile.",
                    failure_message |-> "Your reactions lag behind the runes. They dim and nothing changes."]
                 >>,
     requirements |-> <<>>],
    [id |-> "puzzle_of_stairs",
     title |-> "Puzzle of Stairs",
     description |-> "An inscription on the stairs reads: 'Only those who understand may ascend.'",
     image |-> "tower.png",
     choices |-> <<
                   [label |-> "Solve the puzzle",
                    minigame |-> [type |-> "unscramble", words |-> << <<"m", "a", "g", "i", "c">>, <<"w", "i", "z", "a", "r", "d">>, <<"t", "o", "w", "e", "r">> >>],
                    effects |-> [trait |-> "clever"],
                    message |-> "You decipher the inscription and feel cleverer.",
                    failure_message |-> "You cannot solve the inscription. The stairs remain locked."]
                 >>,
     requirements |-> <<>>]
  >>

QUESTS_ruins ==
  <<
    [id |-> "ancient_guardian",
     title |-> "Ancient Guardian",
     description |-> "Among the ruins, a slumbering stone guardian awakens and challenges you to prove your worth.",
     image |-> "ruins.png",
     choices |-> <<
                   [label |-> "Answer its riddle",
                    minigame |-> [type |-> "unscramble", words |-> << <<"r", "u", "i", "n", "s">>, <<"a", "n", "c", "i", "e", "n", "t">>, <<"l", "e", "g", "e", "n", "d">> >>],
                    effects |-> [trait |-> "legendary"],
                    message |-> "You solve the ancient riddle. The guardian bows and bestows a legendary aura upon you.",
                    failure_message |-> "Your answer crumbles like the ruins around you. The guardian returns to sleep."]
                 >>,
     requirements |-> <<>>]
  >>

\* mutant of QUESTS: the forest has the quests of the village
QUESTS_forest_as_village ==
  [village |-> QUESTS_village,
   forest  |-> QUESTS_village,
   temple  |-> QUESTS_temple,
   tower   |-> QUESTS_tower,
   ruins   |-> QUESTS_ruins]

QUESTS ==
  [village |-> QUESTS_village,
   forest  |-> QUESTS_forest,
   temple  |-> QUESTS_temple,
   tower   |-> QUESTS_tower,
   ruins   |-> QUESTS_ruins]

----------------------------------------------------------------------------
(* quests.py: selection *)

\* requirement(traits) of _quest_available: the callable's outcome, "True",
\* "False" or "raise".  A requirement [trait |-> t] stands for
\* lambda traits: traits[t], which raises KeyError when t is no key.
CallRequirement(requirement, traits) ==
  IF requirement.trait \notin DOMAIN traits THEN "raise"
  ELSE IF traits[requirement.trait] THEN "True"
  ELSE "False"

\* the loop of _quest_available from requirement number i on
RECURSIVE AvailableFrom(_, _, _)
AvailableFrom(requirements, traits, i) ==
  IF i > Len(requirements) THEN TRUE
  ELSE LET r == CallRequirement(requirements[i], traits)
       IN IF r = "False" THEN FALSE
          ELSE AvailableFrom(requirements, traits, i + 1)

\* mutants of _quest_available: requirements are not looked at; a requirement
\* that raises counts as not satisfied
_quest_available_unchecked(quest, traits) == TRUE

_quest_available_failclosed(quest, traits) ==
  \A k \in 1..Len(Get(quest, "requirements", <<>>)) :
    CallRequirement(Get(quest, "requirements", <<>>)[k], traits) = "True"

_quest_available(quest, traits) ==
  AvailableFrom(Get(quest, "requirements", <<>>), traits, 1)

\* the loop of _select_next_quest over the list quests from quest number i
\* on; NoneDict stands for None
RECURSIVE SelectFrom(_, _, _, _)
SelectFrom(quests, traits, completed, i) ==
  IF i > Len(quests) THEN NoneDict
  ELSE IF InList(quests[i].id, completed)
       THEN SelectFrom(quests, traits, completed, i + 1)
  ELSE IF _quest_available(quests[i], traits) THEN quests[i]
  ELSE SelectFrom(quests, traits, completed, i + 1)

\* mutant of SelectInList: the completed list is not looked at
SelectInList_no_skip(quests, traits, completed) == SelectFrom(quests, traits, <<>>, 1)

\* the body of _select_next_quest on the list QUESTS.get(zone, [])
SelectInList(quests, traits, completed) == SelectFrom(quests, traits, completed, 1)

\* mutant of _select_next_quest: the first available quest of the zone,
\* completed or not
_select_next_quest_first(zone, traits, completed) ==
  SelectInList(Get(QUESTS, zone, <<>>), traits, <<>>)

_select_next_quest(zone, traits, completed) ==
  SelectInList(Get(QUESTS, zone, <<>>), traits, completed)

----------------------------------------------------------------------------
(* quests.py: effects *)

\* mutant of _apply_effects_to_realm: a realm without realm_state is given one
_apply_effects_makes_state(realm, effects) ==
  LET traits == Get(realm, "traits", EmptyDict)
      state  == Get(realm, "realm_state", EmptyDict)
  IN IF DOMAIN traits = {} THEN realm
     ELSE LET trait_name == Get(effects, "trait", None)
              traits1 == IF trait_name # None /\ trait_name # ""
                         THEN SetKey(traits, trait_name, TRUE)
                         ELSE traits
              npc     == Get(effects, "npc", NoneDict)
              state1  == IF npc # NoneDict /\ DOMAIN npc # {}
                         THEN SetKey(state, "npc", Append(Get(state, "npc", <<>>), npc))
                         ELSE state
          IN SetKey(SetKey(realm, "traits", traits1), "realm_state", state1)

\* mutant of _apply_effects_to_realm: the trait is stored under its title
_apply_effects_titles_trait(realm, effects) ==
  LET traits == Get(realm, "traits", EmptyDict)
      state  == Get(realm, "realm_state", EmptyDict)
  IN IF DOMAIN traits = {} \/ DOMAIN state = {} THEN realm
     ELSE LET trait_name == Get(effects, "trait", None)
              traits1 == IF trait_name # None /\ trait_name # ""
                         THEN SetKey(traits, "The " \o trait_name, TRUE)
                         ELSE traits
              npc     == Get(effects, "npc", NoneDict)
              state1  == IF npc # NoneDict /\ DOMAIN npc # {}
                         THEN SetKey(state, "npc", Append(Get(state, "npc", <<>>), npc))
                         ELSE state
          IN [realm EXCEPT !.traits = traits1, !.realm_state = state1]

\* mutants of _apply_effects_to_realm: the trait is flipped instead of set; a
\* companion already in the list is not appended again
_apply_effects_flips_trait(realm, effects) ==
  LET traits == Get(realm, "traits", EmptyDict)
      state  == Get(realm, "realm_state", EmptyDict)
  IN IF DOMAIN traits = {} \/ DOMAIN state = {} THEN realm
     ELSE LET trait_name == Get(effects, "trait", None)
              traits1 == IF trait_name # None /\ trait_name # ""
                         THEN SetKey(traits, trait_name, ~Get(traits, trait_name, FALSE))
                         ELSE traits
              npc     == Get(effects, "npc", NoneDict)
              state1  == IF npc # NoneDict /\ DOMAIN npc # {}
                         THEN SetKey(state, "npc", Append(Get(state, "npc", <<>>), npc))
                         ELSE state
          IN [realm EXCEPT !.traits = traits1, !.realm_state = state1]

\* mutant of _apply_effects_to_realm: the granted trait becomes the only true
\* one
_apply_effects_exclusive_trait(realm, effects) ==
  LET traits == Get(realm, "traits", EmptyDict)
      state  == Get(realm, "realm_state", EmptyDict)
  IN IF DOMAIN traits = {} \/ DOMAIN state = {} THEN realm
     ELSE LET trait_name == Get(effects, "trait", None)
              traits1 == IF trait_name # None /\ trait_name # ""
                         THEN [t \in (DOMAIN traits) \cup {trait_name} |->
                                 t = trait_name]
                         ELSE traits
              npc     == Get(effects, "npc", NoneDict)
              state1  == IF npc # NoneDict /\ DOMAIN npc # {}
                         THEN SetKey(state, "npc", Append(Get(state, "npc", <<>>), npc))
                         ELSE state
          IN [realm EXCEPT !.traits = traits1, !.realm_state = state1]

_apply_effects_dedups_npc(realm, effects) ==
  LET traits == Get(realm, "traits", EmptyDict)
      state  == Get(realm, "realm_state", EmptyDict)
  IN IF DOMAIN traits = {} \/ DOMAIN state = {} THEN realm
     ELSE LET trait_name == Get(effects, "trait", None)
              traits1 == IF trait_name # None /\ trait_name # ""
                         THEN SetKey(traits, trait_name, TRUE)
                         ELSE traits
              npc     == Get(effects, "npc", NoneDict)
              state1  == IF npc # NoneDict /\ DOMAIN npc # {}
                            /\ ~InList(npc, Get(state, "npc", <<>>))
                         THEN SetKey(state, "npc", Append(Get(state, "npc", <<>>), npc))
                         ELSE state
          IN [realm EXCEPT !.traits = traits1, !.realm_state = state1]

_apply_effects_to_realm(realm, effects) ==
  LET traits == Get(realm, "traits", EmptyDict)
      state  == Get(realm, "realm_state", EmptyDict)
  IN IF DOMAIN traits = {} \/ DOMAIN state = {} THEN realm
     ELSE LET trait_name == Get(effects, "trait", None)
              traits1 == IF trait_name # None /\ trait_name # ""
                         THEN SetKey(traits, trait_name, TRUE)
                         ELSE traits
              npc     == Get(effects, "npc", NoneDict)
              state1  == IF npc # NoneDict /\ DOMAIN npc # {}
                         THEN SetKey(state, "npc", Append(Get(state, "npc", <<>>), npc))
                         ELSE state
          IN [realm EXCEPT !.traits = traits1, !.realm_state = state1]

\* state.setdefault("quests", []).append(quest_id) on the realm's realm_state
AppendQuest(realm, quest_id) ==
  [realm EXCEPT !.realm_state =
     SetKey(realm.realm_state, "quests",
            Append(Get(realm.realm_state, "quests", <<>>), quest_id))]

----------------------------------------------------------------------------
(* supabase_client.py *)

\* 0 when no realm of the user is stored, else the index of the first one
RealmIndexByUser(d, user_id) ==
  IF \E i \in 1..Len(d.realms) : d.realms[i].user_id = user_id
  THEN CHOOSE i \in 1..Len(d.realms) :
         /\ d.realms[i].user_id = user_id
         /\ \A j \in 1..(i - 1) : d.realms[j].user_id # user_id
  ELSE 0

\* NoneDict stands for None
get_realm_by_user(d, user_id) ==
  IF RealmIndexByUser(d, user_id) = 0 THEN NoneDict
  ELSE d.realms[RealmIndexByUser(d, user_id)]

insert_realm(d, realm) == [d EXCEPT !.realms = Append(@, realm)]

\* mutant of update_realm: the realm is appended, the stored one left
update_realm_always_appends(d, realm) == [d EXCEPT !.realms = Append(@, realm)]

update_realm(d, realm) ==
  IF \E i \in 1..Len(d.realms) : d.realms[i].id = realm.id
  THEN LET idx == CHOOSE i \in 1..Len(d.realms) :
                    /\ d.realms[i].id = realm.id
                    /\ \A j \in 1..(i - 1) : d.realms[j].id # realm.id
       IN [d EXCEPT !.realms[idx] = realm]
  ELSE [d EXCEPT !.realms = Append(@, realm)]

----------------------------------------------------------------------------
(* minigames.py *)

UPPERCASE == <<"A", "B", "C", "D", "E", "F", "G", "H", "I", "J", "K", "L", "M",
               "N", "O", "P", "Q", "R", "S", "T", "U", "V", "W", "X", "Y", "Z">>
LOWERCASE == <<"a", "b", "c", "d", "e", "f", "g", "h", "i", "j", "k", "l", "m",
               "n", "o", "p", "q", "r", "s", "t", "u", "v", "w", "x", "y", "z">>
WHITESPACE == {" ", "\t", "\n"}

\* str.lower()
lower(s) ==
  [i \in 1..Len(s) |->
     IF InList(s[i], UPPERCASE)
     THEN LOWERCASE[CHOOSE k \in 1..Len(UPPERCASE) : UPPERCASE[k] = s[i]]
     ELSE s[i]]

\* str.strip()
strip(s) ==
  LET kept == {i \in 1..Len(s) : s[i] \notin WHITESPACE}
  IN IF kept = {} THEN <<>>
     ELSE LET first == CHOOSE i \in kept : \A j \in kept : i <= j
              last  == CHOOSE i \in kept : \A j \in kept : j <= i
          IN SubSeq(s, first, last)

\* reaction < 1.0 (seconds)
ReflexLimit == 1

\* words of puzzle_game
PuzzleWords ==
  << <<"t", "e", "m", "p", "l", "e">>, <<"t", "o", "w", "e", "r">>,
     <<"r", "u", "i", "n", "s">>, <<"m", "a", "g", "i", "c">>,
     <<"e", "n", "e", "r", "g", "y">> >>

\* mutant of unscramble_game: the answer is compared as typed
unscramble_game_exact(ss, words, key_prefix, inp) ==
  IF Len(words) = 0 THEN [result |-> "False", ss |-> ss, reports |-> <<>>]
  ELSE
    LET word_key == key_prefix \o "_word"
        scrambled_key == key_prefix \o "_scrambled"
        answer_key == key_prefix \o "_answer"
        ss1 == IF word_key \notin DOMAIN ss
               THEN SetKey(SetKey(ss, word_key, inp.word), scrambled_key, inp.scrambled)
               ELSE ss
        target_word == ss1[word_key]
        ss2 == SetKey(ss1, answer_key, inp.answer)
        cleared == DelKeys(ss2, {word_key, scrambled_key, answer_key})
    IN IF inp.pressed
       THEN IF inp.answer = target_word
            THEN [result |-> "True", ss |-> cleared,
                  reports |-> << [level |-> "success", text |-> "Correct!"] >>]
            ELSE [result |-> "False", ss |-> cleared,
                  reports |-> << [level |-> "error", text |-> "Incorrect."] >>]
       ELSE [result |-> None, ss |-> ss2, reports |-> <<>>]

\* One call of unscramble_game on session state ss.  inp.word is the value of
\* random.choice(words), inp.scrambled the letters after random.shuffle,
\* inp.answer the text typed, inp.pressed the value of the Submit button.
\* result is "True", "False" or None.
unscramble_game(ss, words, key_prefix, inp) ==
  IF Len(words) = 0 THEN [result |-> "False", ss |-> ss, reports |-> <<>>]
  ELSE
    LET word_key == key_prefix \o "_word"
        scrambled_key == key_prefix \o "_scrambled"
        answer_key == key_prefix \o "_answer"
        ss1 == IF word_key \notin DOMAIN ss
               THEN SetKey(SetKey(ss, word_key, inp.word), scrambled_key, inp.scrambled)
               ELSE ss
        target_word == ss1[word_key]
        ss2 == SetKey(ss1, answer_key, inp.answer)
        cleared == DelKeys(ss2, {word_key, scrambled_key, answer_key})
    IN IF inp.pressed
       THEN IF lower(strip(inp.answer)) = lower(target_word)
            THEN [result |-> "True", ss |-> cleared,
                  reports |-> << [level |-> "success", text |-> "Correct!"] >>]
            ELSE [result |-> "False", ss |-> cleared,
                  reports |-> << [level |-> "error", text |-> "Incorrect."] >>]
       ELSE [result |-> None, ss |-> ss2, reports |-> <<>>]

\* mutant of reflex_game: a reaction of exactly the limit passes
reflex_game_lenient(ss, key_prefix, inp) ==
  LET stage_key == key_prefix \o "_stage"
      time_key == key_prefix \o "_start_time"
      ss1 == IF stage_key \notin DOMAIN ss THEN SetKey(ss, stage_key, "ready") ELSE ss
      stage == ss1[stage_key]
  IN IF stage = "ready"
     THEN IF inp.pressed
          THEN [result |-> None,
                ss |-> SetKey(SetKey(ss1, stage_key, "go"), time_key, inp.now),
                reports |-> <<>>]
          ELSE [result |-> None, ss |-> ss1, reports |-> <<>>]
     ELSE IF stage = "go" /\ inp.pressed
     THEN LET reaction == inp.now - Get(ss1, time_key, inp.now)
              ss2 == SetKey(ss1, stage_key, "ready")
          IN IF reaction <= 1
             THEN [result |-> "True", ss |-> ss2,
                   reports |-> << [level |-> "success", text |-> "Great reflexes!"] >>]
             ELSE [result |-> "False", ss |-> ss2,
                   reports |-> << [level |-> "info", text |-> "A bit slow! Keep practising."] >>]
     ELSE [result |-> None, ss |-> ss1, reports |-> <<>>]

\* One call of reflex_game.  inp.pressed is the value of the button the stage
\* renders, inp.now the value of time.perf_counter().
reflex_game(ss, key_prefix, inp) ==
  LET stage_key == key_prefix \o "_stage"
      time_key == key_prefix \o "_start_time"
      ss1 == IF stage_key \notin DOMAIN ss THEN SetKey(ss, stage_key, "ready") ELSE ss
      stage == ss1[stage_key]
  IN IF stage = "ready"
     THEN IF inp.pressed
          THEN [result |-> None,
                ss |-> SetKey(SetKey(ss1, stage_key, "go"), time_key, inp.now),
                reports |-> <<>>]
          ELSE [result |-> None, ss |-> ss1, reports |-> <<>>]
     ELSE IF stage = "go" /\ inp.pressed
     THEN LET reaction == inp.now - Get(ss1, time_key, inp.now)
              ss2 == SetKey(ss1, stage_key, "ready")
          IN IF reaction < ReflexLimit
             THEN [result |-> "True", ss |-> ss2,
                   reports |-> << [level |-> "success", text |-> "Great reflexes!"] >>]
             ELSE [result |-> "False", ss |-> ss2,
                   reports |-> << [level |-> "info", text |-> "A bit slow! Keep practising."] >>]
     ELSE [result |-> None, ss |-> ss1, reports |-> <<>>]

puzzle_game(ss, key_prefix, inp) == unscramble_game(ss, PuzzleWords, key_prefix, inp)

----------------------------------------------------------------------------
(* The inputs of one script run *)

\* word rotated left by k places
Rotate(word, k) ==
  [i \in 1..Len(word) |-> word[((i - 1 + k) % Len(word)) + 1]]

\* the outcomes of random.shuffle on the letters of word that the model draws
Scrambles(word) == {Rotate(word, k) : k \in 0..MaxRotate}

\* the word in capitals between two blanks
Shout(word) ==
  <<" ">> \o [i \in 1..Len(word) |->
                IF InList(word[i], LOWERCASE)
                THEN UPPERCASE[CHOOSE k \in 1..Len(LOWERCASE) : LOWERCASE[k] = word[i]]
                ELSE word[i]] \o <<" ">>

\* the texts typed into "Your answer" that the model draws: nothing, the
\* first word as it is, the last word in capitals between blanks, and a word
\* of no list
Answers(words) ==
  {<<>>, <<"t", "o", "a", "s", "t">>, words[1], Shout(words[Len(words)])}

\* time.perf_counter() is monotonic: a reading is not below a stored one
Clock(ss, key_prefix) ==
  {t \in 0..MaxClock : t >= Get(ss, key_prefix \o "_start_time", 0)}

\* the inputs of one call of the minigame: the random draws count only in the
\* call that finds no word stored
MinigameInputs(ss, minigame, key_prefix) ==
  LET mg_type == Get(minigame, "type", None)
      words == IF mg_type = "puzzle" THEN PuzzleWords ELSE Get(minigame, "words", <<>>)
      draws == IF (key_prefix \o "_word") \in DOMAIN ss
               THEN {<<ss[key_prefix \o "_word"], ss[key_prefix \o "_scrambled"]>>}
               ELSE UNION {{<<words[i], s>> : s \in Scrambles(words[i])} : i \in 1..Len(words)}
  IN IF mg_type \in {"unscramble", "puzzle"} /\ Len(words) > 0
     THEN {[word |-> d[1], scrambled |-> d[2], answer |-> a, pressed |-> p, now |-> 0] :
             d \in draws, a \in Answers(words), p \in BOOLEAN}
     ELSE {[word |-> <<>>, scrambled |-> <<>>, answer |-> <<>>, pressed |-> p, now |-> t] :
             p \in BOOLEAN, t \in Clock(ss, key_prefix)}

----------------------------------------------------------------------------
(* app.py: realm creation *)

\* the signed-in player and the uuid4 of the realm
USER_ID == "user-1"
REALM_ID == "realm-1"

REALM_THEMES == <<"Nature", "Mystic", "Shadow", "Tech">>
trait_options == <<"kind", "bold", "curious", "mysterious", "clever">>
more_traits == <<"confident", "hothead", "wise", "humble", "agile", "legendary">>

\* st.multiselect(..., max_selections=3): at most three of trait_options
TraitSelections ==
  {s \in SUBSET {trait_options[i] : i \in 1..Len(trait_options)} : Cardinality(s) <= 3}

\* mutant of NewRealm: the traits mapping has the offered traits only
NewRealm_options_only(user_id, realm_type, selected_traits) ==
  [id |-> REALM_ID,
   user_id |-> user_id,
   realm_type |-> realm_type,
   traits |-> [name \in {trait_options[i] : i \in 1..Len(trait_options)} |->
                 name \in selected_traits],
   realm_state |-> [zone |-> "village", npc |-> <<>>, quests |-> <<>>,
                    resources |-> EmptyDict]]

\* the realm record create_realm_form builds
NewRealm(user_id, realm_type, selected_traits) ==
  LET names == trait_options \o more_traits
      traits == [name \in {names[i] : i \in 1..Len(names)} |-> name \in selected_traits]
  IN [id |-> REALM_ID,
      user_id |-> user_id,
      realm_type |-> realm_type,
      traits |-> traits,
      realm_state |-> [zone |-> "village", npc |-> <<>>, quests |-> <<>>,
                       resources |-> EmptyDict]]

\* what a run renders when it reports nothing
\* view: what the run showed ("realm_form", "quest", "minigame", "dashboard");
\* presented: the id of the quest shown; confirmed: the label confirmed;
\* minigame_result: what the minigame returned; selected: the traits selected
\* in the realm form; reports: st.error, st.success, st.info and exceptions,
\* in order
Blank ==
  [view |-> None, presented |-> None, confirmed |-> None, minigame_result |-> None,
   selected |-> {}, reports |-> <<>>]

View(view) == [Blank EXCEPT !.view = view]

Report(level, text) == [level |-> level, text |-> text]

\* main() shows create_realm_form while the player has no realm; a run with
\* "Create Realm" pressed
CreateRealm ==
  /\ get_realm_by_user(data, USER_ID) = NoneDict
  /\ \E i \in 1..Len(REALM_THEMES), selected_traits \in TraitSelections :
       IF Cardinality(selected_traits) # 3
       THEN /\ ui' = [View("realm_form") EXCEPT !.selected = selected_traits, !.reports =
                        << Report("error", "Please select exactly three traits to begin.") >>]
            /\ UNCHANGED <<data, session_state>>
       ELSE /\ data' = insert_realm(data, NewRealm(USER_ID, REALM_THEMES[i], selected_traits))
            /\ session_state' = SetKey(session_state, "realm_created", TRUE)
            /\ ui' = [View("dashboard") EXCEPT !.selected = selected_traits, !.reports =
                        << Report("success", "Your realm has been created! Enjoy your adventure.") >>]
  /\ UNCHANGED sel

----------------------------------------------------------------------------
(* dashboard.py and quests.py: one run of show_dashboard *)

\* mutant of InFlight: the stored session is not looked at
InFlight_never(ss) == FALSE

\* "current_quest" in st.session_state and st.session_state["current_quest"]
InFlight(ss) == "current_quest" \in DOMAIN ss /\ ss["current_quest"] # NoneDict

\* what show_dashboard reads from the realm and passes to run_quest
DashZone(realm) == Get(Get(realm, "realm_state", EmptyDict), "zone", "village")
DashTraits(realm) == Get(realm, "traits", EmptyDict)
Completed(realm) == Get(Get(realm, "realm_state", EmptyDict), "quests", <<>>)

\* the quest run_quest selects for the stored realm
NextQuest(realm) == _select_next_quest(DashZone(realm), DashTraits(realm), Completed(realm))

\* mutant of ChoiceByLabel: a label of no choice selects the first choice
ChoiceByLabel_first_on_miss(choices, choice_label) ==
  IF \E i \in 1..Len(choices) : choices[i].label = choice_label
  THEN choices[CHOOSE i \in 1..Len(choices) :
                 /\ choices[i].label = choice_label
                 /\ \A j \in 1..(i - 1) : choices[j].label # choice_label]
  ELSE choices[1]

\* next((ch for ch in choices if ch["label"] == choice_label), None)
ChoiceByLabel(choices, choice_label) ==
  IF \E i \in 1..Len(choices) : choices[i].label = choice_label
  THEN choices[CHOOSE i \in 1..Len(choices) :
                 /\ choices[i].label = choice_label
                 /\ \A j \in 1..(i - 1) : choices[j].label # choice_label]
  ELSE NoneDict

\* the in-flight session run_quest records for a minigame-gated choice
NewSession(next_q, zone, chosen) ==
  [quest_id |-> next_q.id,
   zone |-> zone,
   minigame |-> chosen.minigame,
   success_effects |-> Get(chosen, "effects", EmptyDict),
   failure_effects |-> Get(chosen, "failure_effects", EmptyDict),
   success_message |-> Get(chosen, "message", None),
   failure_message |-> Get(chosen, "failure_message", "You failed the challenge.")]

\* the call of the minigame of the in-flight session info; known is FALSE for
\* a type run_quest does not know
RunMinigame(ss, minigame, key_prefix, inp) ==
  LET mg_type == Get(minigame, "type", None)
  IN IF mg_type = "unscramble"
     THEN [known |-> TRUE] @@ unscramble_game(ss, Get(minigame, "words", <<>>), key_prefix, inp)
     ELSE IF mg_type = "reflex" THEN [known |-> TRUE] @@ reflex_game(ss, key_prefix, inp)
     ELSE IF mg_type = "puzzle" THEN [known |-> TRUE] @@ puzzle_game(ss, key_prefix, inp)
     ELSE [known |-> FALSE, result |-> None, ss |-> ss, reports |-> <<>>]

\* mutants of ResolvedRealm: the quest is not marked complete on success; the
\* quest is marked complete on failure too
ResolvedRealm_not_completed(realm, info, result) ==
  IF result = "True"
  THEN _apply_effects_to_realm(realm, Get(info, "success_effects", EmptyDict))
  ELSE _apply_effects_to_realm(realm, Get(info, "failure_effects", EmptyDict))

ResolvedRealm_completed_on_failure(realm, info, result) ==
  IF result = "True"
  THEN _apply_effects_to_realm(AppendQuest(realm, info.quest_id),
                               Get(info, "success_effects", EmptyDict))
  ELSE _apply_effects_to_realm(AppendQuest(realm, info.quest_id),
                               Get(info, "failure_effects", EmptyDict))

\* the realm run_quest writes when the minigame of session info returned result
ResolvedRealm(realm, info, result) ==
  IF result = "True"
  THEN _apply_effects_to_realm(AppendQuest(realm, info.quest_id),
                               Get(info, "success_effects", EmptyDict))
  ELSE _apply_effects_to_realm(realm, Get(info, "failure_effects", EmptyDict))

\* mutant of ImmediateRealm: the quest is completed, its effects are not
\* applied
ImmediateRealm_no_effects(realm, next_q, chosen) == AppendQuest(realm, next_q.id)

\* mutant of ImmediateRealm: a choice without effects completes nothing
ImmediateRealm_skips_empty(realm, next_q, chosen) ==
  IF DOMAIN Get(chosen, "effects", EmptyDict) = {} THEN realm
  ELSE AppendQuest(_apply_effects_to_realm(realm, chosen.effects), next_q.id)

\* the realm run_quest writes for a choice without minigame
ImmediateRealm(realm, next_q, chosen) ==
  AppendQuest(_apply_effects_to_realm(realm, Get(chosen, "effects", EmptyDict)), next_q.id)

\* run_quest once the minigame of session info returned True or False: the
\* store, the session state and the reports after it
Resolve(d, realm, info, mg) ==
  [data |-> update_realm(d, ResolvedRealm(realm, info, mg.result)),
   session_state |-> SetKey(mg.ss, "current_quest", NoneDict),
   ui |-> [View("minigame") EXCEPT
             !.minigame_result = mg.result,
             !.reports = mg.reports \o
               << IF mg.result = "True"
                  THEN Report("success", Get(info, "success_message", None))
                  ELSE Report("error", Get(info, "failure_message",
                                           "You failed the challenge.")) >>]]

\* mutant of AfterMinigame: None is taken for a result
AfterMinigame_none_resolves(d, ss, realm, info, mg) ==
  IF ~mg.known
  THEN [data |-> d,
        session_state |-> SetKey(ss, "current_quest", NoneDict),
        ui |-> [View("minigame") EXCEPT
                  !.reports = << Report("error", "Unknown minigame type.") >>]]
  ELSE Resolve(d, realm, info, mg)

\* mutant of AfterMinigame: an unknown type leaves the session in flight
AfterMinigame_unknown_stays(d, ss, realm, info, mg) ==
  IF ~mg.known
  THEN [data |-> d,
        session_state |-> ss,
        ui |-> [View("minigame") EXCEPT
                  !.reports = << Report("error", "Unknown minigame type.") >>]]
  ELSE IF mg.result # None THEN Resolve(d, realm, info, mg)
  ELSE [data |-> d, session_state |-> mg.ss,
        ui |-> [View("minigame") EXCEPT !.reports = mg.reports]]

\* run_quest after the call mg of the minigame of session info
AfterMinigame(d, ss, realm, info, mg) ==
  IF ~mg.known
  THEN [data |-> d,
        session_state |-> SetKey(ss, "current_quest", NoneDict),
        ui |-> [View("minigame") EXCEPT
                  !.reports = << Report("error", "Unknown minigame type.") >>]]
  ELSE IF mg.result # None THEN Resolve(d, realm, info, mg)
  ELSE [data |-> d, session_state |-> mg.ss,
        ui |-> [View("minigame") EXCEPT !.reports = mg.reports]]

\* "Continue Adventure" pressed while a session is in flight: run_quest calls
\* the minigame and, when it resolves, commits
RunQuestMinigame ==
  /\ get_realm_by_user(data, USER_ID) # NoneDict
  /\ InFlight(session_state)
  /\ LET realm == get_realm_by_user(data, USER_ID)
         info == session_state["current_quest"]
         minigame == Get(info, "minigame", NoneDict)
         key_prefix == "mg_" \o info.quest_id
     IN IF minigame = NoneDict
        THEN /\ ui' = View("minigame")
             /\ UNCHANGED <<data, session_state>>
        ELSE \E inp \in MinigameInputs(session_state, minigame, key_prefix) :
               LET after == AfterMinigame(data, session_state, realm, info,
                              RunMinigame(session_state, minigame, key_prefix, inp))
               IN /\ data' = after.data
                  /\ session_state' = after.session_state
                  /\ ui' = after.ui
  /\ UNCHANGED sel

\* "Continue Adventure" pressed, no session in flight, no quest left in the zone
RunQuestNoQuest ==
  /\ get_realm_by_user(data, USER_ID) # NoneDict
  /\ ~InFlight(session_state)
  /\ NextQuest(get_realm_by_user(data, USER_ID)) = NoneDict
  /\ ui' = [View("quest") EXCEPT !.reports =
              << Report("info", "You have completed all available quests in this zone. Unlock the next zone to continue.") >>]
  /\ UNCHANGED <<data, session_state, sel>>

\* "Continue Adventure" pressed, no session in flight: the quest is shown and
\* "Confirm" is not pressed
RunQuestPresent ==
  /\ get_realm_by_user(data, USER_ID) # NoneDict
  /\ ~InFlight(session_state)
  /\ NextQuest(get_realm_by_user(data, USER_ID)) # NoneDict
  /\ ui' = [View("quest") EXCEPT !.presented = NextQuest(get_realm_by_user(data, USER_ID)).id]
  /\ UNCHANGED <<data, session_state, sel>>

\* the labels the radio can return, and one that is no label of the quest
ChoiceLabels(next_q) ==
  {next_q.choices[i].label : i \in 1..Len(next_q.choices)} \cup {"(no such choice)"}

\* "Continue Adventure" pressed, no session in flight: the quest is shown and
\* "Confirm" is pressed with choice_label selected
RunQuestConfirm ==
  /\ get_realm_by_user(data, USER_ID) # NoneDict
  /\ ~InFlight(session_state)
  /\ NextQuest(get_realm_by_user(data, USER_ID)) # NoneDict
  /\ LET realm == get_realm_by_user(data, USER_ID)
         next_q == NextQuest(realm)
     IN \E choice_label \in ChoiceLabels(next_q) :
          LET chosen == ChoiceByLabel(next_q.choices, choice_label)
          IN IF chosen = NoneDict
             THEN /\ ui' = [View("quest") EXCEPT !.presented = next_q.id,
                              !.confirmed = choice_label,
                              !.reports = << Report("error", "Invalid choice selected.") >>]
                  /\ UNCHANGED <<data, session_state>>
             ELSE IF "minigame" \in DOMAIN chosen
             THEN /\ session_state' = SetKey(session_state, "current_quest",
                                             NewSession(next_q, DashZone(realm), chosen))
                  /\ ui' = [View("quest") EXCEPT !.presented = next_q.id,
                              !.confirmed = choice_label]
                  /\ UNCHANGED data
             ELSE /\ data' = update_realm(data, ImmediateRealm(realm, next_q, chosen))
                  /\ ui' = [View("quest") EXCEPT !.presented = next_q.id,
                              !.confirmed = choice_label,
                              !.reports = << Report("success", Get(chosen, "message", "Well done.")) >>]
                  /\ UNCHANGED session_state
  /\ UNCHANGED sel

\* str.capitalize on the zone names of the registry
capitalize(zone) ==
  CASE zone = "village" -> "Village"
    [] zone = "forest" -> "Forest"
    [] zone = "temple" -> "Temple"
    [] zone = "tower" -> "Tower"
    [] zone = "ruins" -> "Ruins"
    [] OTHER -> zone

\* A run of show_dashboard in which "Continue Adventure" is not pressed and
\* "Unlock Next Zone", when the run gets to render it, is.  The list
\* comprehension q["id"] over the completed ids raises TypeError on the first
\* id (a str), which ends the run before the button.
UnlockNextZone ==
  /\ get_realm_by_user(data, USER_ID) # NoneDict
  /\ LET realm == get_realm_by_user(data, USER_ID)
         zone == DashZone(realm)
         current_index == IF ZoneIndex(zone) = 0 THEN 1 ELSE ZoneIndex(zone)
         can_unlock == current_index < Len(ZONE_ORDER)
         new_zone == next_zone(zone)
     IN IF Len(Completed(realm)) > 0
        THEN /\ ui' = [View("dashboard") EXCEPT !.reports = << Report("exception", "TypeError") >>]
             /\ UNCHANGED <<data, session_state>>
        ELSE IF can_unlock /\ new_zone # None
        THEN /\ data' = update_realm(data,
                          [realm EXCEPT !.realm_state = SetKey(realm.realm_state, "zone", new_zone)])
             /\ ui' = [View("dashboard") EXCEPT
                         !.reports = << Report("success", "You travel to the " \o capitalize(new_zone) \o "!") >>]
             /\ UNCHANGED session_state
        ELSE /\ ui' = View("dashboard")
             /\ UNCHANGED <<data, session_state>>
  /\ UNCHANGED sel

----------------------------------------------------------------------------
(* The game *)

\* no direct call of the selector
NoCall ==
  [kind |-> "none", zone |-> None, quests |-> <<>>, traits |-> EmptyDict,
   completed |-> <<>>, called |-> FALSE, result |-> NoneDict]

Init ==
  /\ data = [realms |-> <<>>]
  /\ session_state = [k \in {"signed_in"} |-> TRUE]
  /\ ui = Blank
  /\ sel = NoCall

Next ==
  \/ CreateRealm
  \/ RunQuestMinigame
  \/ RunQuestNoQuest
  \/ RunQuestPresent
  \/ RunQuestConfirm
  \/ UnlockNextZone

Spec == Init /\ [][Next]_vars

----------------------------------------------------------------------------
(* The game entered with a session in flight that a catalog with other     *)
(* minigames recorded: run_quest reads the minigame from st.session_state. *)

\* minigame dicts the shipped catalog does not have: a type run_quest does
\* not know, no type, the puzzle, and an unscramble challenge without words
ProbeMinigames ==
  {[type |-> "riddle"], [words |-> << <<"o", "r", "b">> >>], [type |-> "puzzle"],
   [type |-> "unscramble", words |-> <<>>]}

\* the first quest of the village with a choice gated by minigame
ProbeChoice(minigame) ==
  [label |-> "Solve its riddle", minigame |-> minigame, effects |-> [trait |-> "wise"],
   message |-> "The orb hums in approval."]

\* a realm as created
StartRealm == NewRealm(USER_ID, "Mystic", {"kind", "bold", "curious"})

\* the realm, and the session run_quest records for the choice
ProbeSessionStates ==
  {[data |-> [realms |-> << StartRealm >>],
    session_state |->
      [k \in {"signed_in", "realm_created", "current_quest"} |->
         IF k = "current_quest"
         THEN NewSession(QUESTS_village[1], "village", ProbeChoice(m))
         ELSE TRUE]] :
     m \in ProbeMinigames}

InitSession ==
  \/ Init
  \/ /\ \E p \in ProbeSessionStates :
          /\ data = p.data
          /\ session_state = p.session_state
     /\ ui = Blank
     /\ sel = NoCall

SpecSession == InitSession /\ [][Next]_vars

----------------------------------------------------------------------------
(* The game on a store whose writes can fail: _save_data opens data.json   *)
(* for writing, which truncates it, and dumps the JSON; an OSError on the  *)
(* way ends the script run with the exception.                             *)

\* the store after a write that failed: data.json as it was (open failed),
\* or cut short, which _load_data reads as the empty store (JSONDecodeError)
WriteFailures(d) == {d, [realms |-> <<>>]}

\* mutant of ResolveWriteFails: the session is cleared before the write
ResolveWriteFails_clears(d, mg, stored) ==
  [data |-> stored,
   session_state |-> SetKey(mg.ss, "current_quest", NoneDict),
   ui |-> [View("minigame") EXCEPT
             !.minigame_result = mg.result,
             !.reports = mg.reports \o << Report("exception", "OSError") >>]]

\* run_quest once the minigame returned True or False and update_realm
\* raised, leaving stored as the store: the run ends before the session is
\* cleared and before the message
ResolveWriteFails(d, mg, stored) ==
  [data |-> stored,
   session_state |-> mg.ss,
   ui |-> [View("minigame") EXCEPT
             !.minigame_result = mg.result,
             !.reports = mg.reports \o << Report("exception", "OSError") >>]]

\* "Continue Adventure" pressed while a session is in flight: the minigame
\* resolves and the write of the realm fails
RunQuestMinigameWriteFails ==
  /\ get_realm_by_user(data, USER_ID) # NoneDict
  /\ InFlight(session_state)
  /\ LET info == session_state["current_quest"]
         minigame == Get(info, "minigame", NoneDict)
         key_prefix == "mg_" \o info.quest_id
     IN /\ minigame # NoneDict
        /\ \E inp \in MinigameInputs(session_state, minigame, key_prefix) :
             LET mg == RunMinigame(session_state, minigame, key_prefix, inp)
             IN /\ mg.known
                /\ mg.result # None
                /\ \E stored \in WriteFailures(data) :
                     LET after == ResolveWriteFails(data, mg, stored)
                     IN /\ data' = after.data
                        /\ session_state' = after.session_state
                        /\ ui' = after.ui
  /\ UNCHANGED sel

\* "Confirm" pressed on a choice without minigame: the write of the realm
\* fails
RunQuestConfirmWriteFails ==
  /\ get_realm_by_user(data, USER_ID) # NoneDict
  /\ ~InFlight(session_state)
  /\ NextQuest(get_realm_by_user(data, USER_ID)) # NoneDict
  /\ LET next_q == NextQuest(get_realm_by_user(data, USER_ID))
     IN \E choice_label \in ChoiceLabels(next_q) :
          LET chosen == ChoiceByLabel(next_q.choices, choice_label)
          IN /\ chosen # NoneDict
             /\ "minigame" \notin DOMAIN chosen
             /\ data' \in WriteFailures(data)
             /\ ui' = [View("quest") EXCEPT !.presented = next_q.id,
                         !.confirmed = choice_label,
                         !.reports = << Report("exception", "OSError") >>]
  /\ UNCHANGED <<session_state, sel>>

\* "Unlock Next Zone" pressed: the write of the realm fails
UnlockNextZoneWriteFails ==
  /\ get_realm_by_user(data, USER_ID) # NoneDict
  /\ LET realm == get_realm_by_user(data, USER_ID)
     IN /\ Len(Completed(realm)) = 0
        /\ next_zone(DashZone(realm)) # None
  /\ data' \in WriteFailures(data)
  /\ ui' = [View("dashboard") EXCEPT !.reports = << Report("exception", "OSError") >>]
  /\ UNCHANGED <<session_state, sel>>

\* the game of a realm as create_realm_form stored it
InitFail ==
  /\ data = insert_realm([realms |-> <<>>], StartRealm)
  /\ session_state = [k \in {"signed_in", "realm_created"} |-> TRUE]
  /\ ui = View("dashboard")
  /\ sel = NoCall

\* the runs of the dashboard, with writes that succeed and writes that fail;
\* a realm lost with the store is not created anew
NextFail ==
  \/ RunQuestMinigame
  \/ RunQuestNoQuest
  \/ RunQuestPresent
  \/ RunQuestConfirm
  \/ UnlockNextZone
  \/ RunQuestMinigameWriteFails
  \/ RunQuestConfirmWriteFails
  \/ UnlockNextZoneWriteFails

SpecFail == InitFail /\ [][NextFail]_vars

----------------------------------------------------------------------------
(* The quest selector called directly: Init draws the arguments, the action *)
(* calls it once.                                                          *)

\* the sequences over S of length at most n
SeqsUpTo(S, n) == UNION {[1..k -> S] : k \in 0..n}

\* traits mappings: every mapping of some of two trait names to a boolean
ProbeTraits == UNION {[S -> BOOLEAN] : S \in SUBSET {"kind", "bold"}}

\* requirement callables: lambda traits: traits["kind"] and traits["bold"]
ProbeRequirements == {[trait |-> "kind"], [trait |-> "bold"]}

ProbeIds == {"quest_a", "quest_b"}

\* quest definitions, with and without the "requirements" key
ProbeQuests ==
  {[id |-> i, requirements |-> r] :
     i \in ProbeIds, r \in SeqsUpTo(ProbeRequirements, MaxReqs)}
    \cup {[id |-> "quest_a"]}

\* the zones of the registry and a zone of no catalog
ProbeZones == {ZONE_ORDER[i] : i \in 1..Len(ZONE_ORDER)} \cup {"nowhere"}

\* the ids of the quests of a list
IdsOf(quests) == {quests[i].id : i \in 1..Len(quests)}

\* the lists without repetition over S
Arrangements(S) ==
  {s \in SeqsUpTo(S, Cardinality(S)) : \A i, j \in 1..Len(s) : s[i] = s[j] => i = j}

\* _select_next_quest(zone, traits, completed) on the catalog QUESTS
ZoneCalls ==
  UNION {
    {[kind |-> "zone", zone |-> z, quests |-> Get(QUESTS, z, <<>>), traits |-> tr,
      completed |-> c, called |-> FALSE, result |-> NoneDict] :
       tr \in ProbeTraits,
       c \in Arrangements(IdsOf(Get(QUESTS, z, <<>>)) \cup {"quest_a"})} :
    z \in ProbeZones}

\* the loop of _select_next_quest on a list of quests that have requirements
ListCalls ==
  {[kind |-> "list", zone |-> None, quests |-> qs, traits |-> tr,
    completed |-> c, called |-> FALSE, result |-> NoneDict] :
     qs \in SeqsUpTo(ProbeQuests, MaxQuests), tr \in ProbeTraits,
     c \in SeqsUpTo(ProbeIds, MaxCompleted)}

InitSelect ==
  /\ data = [realms |-> <<>>]
  /\ session_state = [k \in {"signed_in"} |-> TRUE]
  /\ ui = Blank
  /\ sel \in ZoneCalls \cup ListCalls

SelectZone ==
  /\ sel.kind = "zone"
  /\ ~sel.called
  /\ sel' = [sel EXCEPT !.called = TRUE,
                        !.result = _select_next_quest(sel.zone, sel.traits, sel.completed)]
  /\ UNCHANGED <<data, session_state, ui>>

SelectList ==
  /\ sel.kind = "list"
  /\ ~sel.called
  /\ sel' = [sel EXCEPT !.called = TRUE,
                        !.result = SelectInList(sel.quests, sel.traits, sel.completed)]
  /\ UNCHANGED <<data, session_state, ui>>

NextSelect == SelectZone \/ SelectList

SpecSelect == InitSelect /\ [][NextSelect]_vars

----------------------------------------------------------------------------
(* Claims about the quest selector (SpecSelect) *)

\* the requirements of a quest: quest.get("requirements", [])
ReqsOf(quest) == IF "requirements" \in DOMAIN quest THEN quest.requirements ELSE <<>>

\* the outcomes of the requirements of quest number i of the call
Outcomes(i) ==
  {CallRequirement(ReqsOf(sel.quests[i])[k], sel.traits) :
     k \in 1..Len(ReqsOf(sel.quests[i]))}

\* quest number i of the call is not completed and none of its requirements
\* returns False
Eligible(i) ==
  /\ \A k \in 1..Len(sel.completed) : sel.completed[k] # sel.quests[i].id
  /\ "False" \notin Outcomes(i)

\* C1: for every zone, traits mapping and completed list, the quest that
\* _select_next_quest returns is none of the completed list.
C1_NeverReturnsCompleted ==
  (sel.called /\ sel.result # NoneDict) =>
    \A k \in 1..Len(sel.completed) : sel.completed[k] # sel.result.id

\* a call that skipped a completed first quest and returned a later one
C1_Witness ==
  /\ sel.called
  /\ sel.result # NoneDict
  /\ Len(sel.quests) >= 2
  /\ \E k \in 1..Len(sel.completed) : sel.completed[k] = sel.quests[1].id
  /\ sel.result = sel.quests[2]

\* C2: _select_next_quest returns the earliest quest of the zone's list that
\* is not completed and whose requirements hold (none returns False), and
\* None when there is none, as for a zone of no catalog; village with no
\* traits and nothing completed yields flickering_orb.
C2_EarliestEligible ==
  sel.called =>
    /\ IF \E i \in 1..Len(sel.quests) : Eligible(i)
       THEN \E i \in 1..Len(sel.quests) :
              /\ Eligible(i)
              /\ \A j \in 1..(i - 1) : ~Eligible(j)
              /\ sel.result = sel.quests[i]
       ELSE sel.result = NoneDict
    /\ (sel.kind = "zone" /\ sel.zone = "nowhere") => sel.result = NoneDict
    /\ (sel.kind = "zone" /\ sel.zone = "village" /\ sel.traits = EmptyDict
          /\ sel.completed = <<>>)
         => (sel.result # NoneDict /\ sel.result.id = "flickering_orb")

\* a call that passed over a first quest whose requirement returned False and
\* returned the second
C2_Witness ==
  /\ sel.called
  /\ sel.kind = "list"
  /\ Len(sel.quests) = 2
  /\ \A k \in 1..Len(sel.completed) : sel.completed[k] # sel.quests[1].id
  /\ "False" \in Outcomes(1)
  /\ sel.result = sel.quests[2]
  /\ sel.quests[2] # sel.quests[1]

\* C3: a requirement that raises counts as satisfied: a quest that is not
\* completed, of which some requirement raises and none returns False, is
\* never passed over - the call returns it or an earlier quest.
C3_FailOpen ==
  sel.called =>
    \A i \in 1..Len(sel.quests) :
      (Eligible(i) /\ "raise" \in Outcomes(i)) =>
        /\ sel.result # NoneDict
        /\ \E j \in 1..i : sel.result = sel.quests[j]
        /\ (\A j \in 1..(i - 1) : ~Eligible(j)) => sel.result = sel.quests[i]

\* a call that returned a quest whose only requirement raised
C3_Witness ==
  /\ sel.called
  /\ sel.kind = "list"
  /\ Len(sel.quests) >= 1
  /\ Outcomes(1) = {"raise"}
  /\ sel.completed = <<>>
  /\ sel.result = sel.quests[1]

----------------------------------------------------------------------------
(* Claims about the engine (Spec) *)

\* the player has a realm in the store; the stored realm
HasRealm == Len(data.realms) > 0
Realm == data.realms[1]
Zone == Realm.realm_state.zone
Quests == Realm.realm_state.quests
Npc == Realm.realm_state.npc

\* a session is in flight; the session
SessionOpen ==
  /\ "current_quest" \in DOMAIN session_state
  /\ DOMAIN session_state["current_quest"] # {"py_none"}
Session == session_state["current_quest"]

\* what an effects payload is to do to the traits and to the companions
Granted(traits, effects) ==
  IF "trait" \in DOMAIN effects
  THEN [t \in (DOMAIN traits) \cup {effects.trait} |->
          IF t = effects.trait THEN TRUE ELSE traits[t]]
  ELSE traits
Joined(npc, effects) ==
  IF "npc" \in DOMAIN effects THEN npc \o <<effects.npc>> ELSE npc

\* the quests of the catalog; the quest of an id; a quest's choice of a label
CatalogQuests ==
  UNION {{QUESTS[z][i] : i \in 1..Len(QUESTS[z])} : z \in DOMAIN QUESTS}
QuestOf(id) == CHOOSE q \in CatalogQuests : q.id = id
HasChoice(quest, label) == \E i \in 1..Len(quest.choices) : quest.choices[i].label = label
ChoiceOf(quest, label) ==
  quest.choices[CHOOSE i \in 1..Len(quest.choices) : quest.choices[i].label = label]

\* C1, in the engine: a run never shows a quest that the stored realm has
\* completed.
C1_NeverPresentedAgain ==
  [][(HasRealm /\ ui'.presented # None) =>
       \A k \in 1..Len(Quests) : Quests[k] # ui'.presented]_vars

\* C4: from the confirmation of a minigame-gated choice until its minigame
\* resolves, no run selects or shows a quest or takes a choice: the session
\* stays the same one with the realm's traits, companions and completed list
\* untouched, or it ends with the minigame's result and at most its own quest
\* completed.
C4_OneSessionAtATime ==
  [][SessionOpen =>
       /\ ui'.presented = None
       /\ ui'.confirmed = None
       /\ \/ /\ SessionOpen'
             /\ Session' = Session
             /\ Realm'.traits = Realm.traits
             /\ Npc' = Npc
             /\ Quests' = Quests
          \/ /\ ~SessionOpen'
             /\ ui'.minigame_result \in {"True", "False"}
             /\ Quests' \in {Quests, Quests \o <<Session.quest_id>>}]_vars

\* a session in flight whose reflex minigame has been started
C4_Witness ==
  /\ SessionOpen
  /\ ui.view = "minigame"
  /\ "mg_arcane_rhythm_stage" \in DOMAIN session_state
  /\ session_state["mg_arcane_rhythm_stage"] = "go"

\* C5: the run in which the minigame of the session in flight returns True
\* applies the session's success effects, appends its quest id to the
\* completed list, writes the realm and clears the session.
C5_SuccessCommits ==
  [][(SessionOpen /\ ui'.view = "minigame" /\ ui'.minigame_result = "True") =>
       /\ Quests' = Quests \o <<Session.quest_id>>
       /\ Realm'.traits = Granted(Realm.traits, Session.success_effects)
       /\ Npc' = Joined(Npc, Session.success_effects)
       /\ Zone' = Zone
       /\ "current_quest" \in DOMAIN session_state'
       /\ ~SessionOpen']_vars

\* a minigame just won, its quest completed
C5_Witness ==
  /\ HasRealm
  /\ ui.view = "minigame"
  /\ ui.minigame_result = "True"
  /\ ~SessionOpen
  /\ Len(Quests) > 0

\* C6: the run in which the minigame of the session in flight returns False
\* applies the session's failure effects only, leaves the completed list as
\* it is, writes the realm and clears the session; the selection for the
\* session's zone then yields the same quest again.
C6_FailureKeepsQuestOpen ==
  [][(SessionOpen /\ ui'.view = "minigame" /\ ui'.minigame_result = "False") =>
       /\ Quests' = Quests
       /\ Realm'.traits = Granted(Realm.traits, Session.failure_effects)
       /\ Npc' = Joined(Npc, Session.failure_effects)
       /\ Zone' = Zone
       /\ ~SessionOpen'
       /\ _select_next_quest(Session.zone, Realm'.traits, Quests') # NoneDict
       /\ _select_next_quest(Session.zone, Realm'.traits, Quests').id = Session.quest_id]_vars

\* a minigame just lost
C6_Witness ==
  /\ HasRealm
  /\ ui.view = "minigame"
  /\ ui.minigame_result = "False"
  /\ ~SessionOpen

\* C7: a run in which the minigame of the session in flight returns None
\* (pending) leaves the store as it is and the session in place, unchanged.
C7_PendingCommitsNothing ==
  [][(SessionOpen /\ ui'.view = "minigame" /\ ui'.minigame_result = None) =>
       /\ data' = data
       /\ SessionOpen'
       /\ Session' = Session]_vars

\* a session in flight with an answer typed and not submitted
C7_Witness ==
  /\ SessionOpen
  /\ ui.view = "minigame"
  /\ ui.minigame_result = None
  /\ ("mg_" \o Session.quest_id \o "_answer") \in DOMAIN session_state
  /\ session_state["mg_" \o Session.quest_id \o "_answer"] # <<>>

\* C8: confirming a choice that has no minigame applies its effects, appends
\* the shown quest's id to the completed list (also when the effects are
\* empty), writes the realm and opens no session.
C8_ImmediateChoiceCommits ==
  [][(/\ HasRealm
      /\ ~SessionOpen
      /\ ui'.view = "quest"
      /\ ui'.presented # None
      /\ ui'.confirmed # None
      /\ HasChoice(QuestOf(ui'.presented), ui'.confirmed)
      /\ "minigame" \notin DOMAIN ChoiceOf(QuestOf(ui'.presented), ui'.confirmed)) =>
       /\ Quests' = Quests \o <<ui'.presented>>
       /\ Realm'.traits =
            Granted(Realm.traits, ChoiceOf(QuestOf(ui'.presented), ui'.confirmed).effects)
       /\ Npc' = Joined(Npc, ChoiceOf(QuestOf(ui'.presented), ui'.confirmed).effects)
       /\ Zone' = Zone
       /\ session_state' = session_state
       /\ ~SessionOpen']_vars

\* "Ignore it" confirmed: the quest is completed and nothing else changed
C8_Witness ==
  /\ HasRealm
  /\ ui.confirmed = "Ignore it"
  /\ Quests = <<"flickering_orb">>
  /\ Npc = <<>>
  /\ ~SessionOpen

\* C9: the zone of a realm advances only from a state in which the selector
\* returns None for the current zone and a next zone exists.
C9_AdvanceOnlyWhenZoneComplete ==
  [][(HasRealm /\ HasRealm' /\ Zone' # Zone) =>
       /\ _select_next_quest(Zone, Realm.traits, Quests) = NoneDict
       /\ next_zone(Zone) # None]_vars

\* C10: in the last zone the realm never advances, also with every quest of
\* the zone completed: unlock_next_zone_for_realm returns False and leaves the
\* realm as it is, and a dashboard run leaves the store as it is and reports
\* no travel.
C10_NoAdvanceFromLastZone ==
  /\ []((HasRealm /\ Zone = ZONE_ORDER[Len(ZONE_ORDER)]) =>
          unlock_next_zone_for_realm(Realm) = [realm |-> Realm, result |-> FALSE])
  /\ [][(HasRealm /\ Zone = ZONE_ORDER[Len(ZONE_ORDER)]) =>
          /\ Zone' = Zone
          /\ ui'.view = "dashboard" =>
               /\ data' = data
               /\ \A k \in 1..Len(ui'.reports) : ui'.reports[k].level # "success"]_vars

\* the dashboard shown in ruins with the quest of ruins completed
C10_Witness ==
  /\ HasRealm
  /\ Zone = "ruins"
  /\ \E k \in 1..Len(Quests) : Quests[k] = "ancient_guardian"
  /\ ui.view = "dashboard"

----------------------------------------------------------------------------
(* next_zone and _apply_effects_to_realm called directly: Init draws the   *)
(* arguments, the action calls the function (the effects once and twice).  *)

\* realms of the calls have at most MaxNpcs companions
MaxNpcs == 1

\* the zones of the registry and values that are none of them
ProbeCurrents ==
  {ZONE_ORDER[i] : i \in 1..Len(ZONE_ORDER)} \cup {"nowhere", "Village", "", None}

ProbeNpcs ==
  {[name |-> "Watcher Orb", type |-> "mystic"], [name |-> "Whisper Sprite", type |-> "guide"]}

\* realm_state dicts: with and without the "npc" key, and the empty dict
ProbeRealmStates ==
  {[zone |-> z, npc |-> n, quests |-> q, resources |-> EmptyDict] :
     z \in {"village", "ruins"}, n \in SeqsUpTo(ProbeNpcs, MaxNpcs),
     q \in {<<>>, <<"flickering_orb">>}}
    \cup {[zone |-> "village", quests |-> <<>>]}
    \cup {EmptyDict}

\* realms: the traits mappings of ProbeTraits, the empty one included, and
\* realms without the "traits" key and without the "realm_state" key
ProbeRealms ==
  {[id |-> REALM_ID, user_id |-> USER_ID, realm_type |-> "Nature",
    traits |-> tr, realm_state |-> st] :
     tr \in ProbeTraits, st \in ProbeRealmStates}
    \cup {[id |-> REALM_ID, user_id |-> USER_ID, realm_type |-> "Nature",
            realm_state |-> st] : st \in ProbeRealmStates}
    \cup {[id |-> REALM_ID, user_id |-> USER_ID, realm_type |-> "Nature",
            traits |-> tr] : tr \in ProbeTraits}

\* effects dicts: none, a trait (a key of the traits or not), a companion,
\* both, and values that are not truthy
ProbeEffects ==
  {EmptyDict, [trait |-> ""], [npc |-> EmptyDict]}
    \cup {[trait |-> t] : t \in {"kind", "clever"}}
    \cup {[npc |-> n] : n \in ProbeNpcs}
    \cup {[trait |-> t, npc |-> n] : t \in {"kind", "clever"}, n \in ProbeNpcs}

NextZoneCalls ==
  {[kind |-> "next_zone", current |-> c, called |-> FALSE, result |-> None] :
     c \in ProbeCurrents}

EffectCalls ==
  {[kind |-> "effects", realm |-> r, effects |-> e, called |-> FALSE,
    once |-> NoneDict, twice |-> NoneDict] :
     r \in ProbeRealms, e \in ProbeEffects}

InitCalls ==
  /\ data = [realms |-> <<>>]
  /\ session_state = [k \in {"signed_in"} |-> TRUE]
  /\ ui = Blank
  /\ sel \in NextZoneCalls \cup EffectCalls

CallNextZone ==
  /\ sel.kind = "next_zone"
  /\ ~sel.called
  /\ sel' = [sel EXCEPT !.called = TRUE, !.result = next_zone(sel.current)]
  /\ UNCHANGED <<data, session_state, ui>>

CallApplyEffects ==
  /\ sel.kind = "effects"
  /\ ~sel.called
  /\ sel' = [sel EXCEPT
               !.called = TRUE,
               !.once = _apply_effects_to_realm(sel.realm, sel.effects),
               !.twice = _apply_effects_to_realm(
                           _apply_effects_to_realm(sel.realm, sel.effects), sel.effects)]
  /\ UNCHANGED <<data, session_state, ui>>

NextCalls == CallNextZone \/ CallApplyEffects

SpecCalls == InitCalls /\ [][NextCalls]_vars

----------------------------------------------------------------------------
(* Claims about next_zone and _apply_effects_to_realm (SpecCalls) *)

\* C11: next_zone returns the zone after current in ZONE_ORDER, None exactly
\* for the last zone among the zones of the order, and None for every value
\* that is no zone of the order; the call changes nothing but its result.
C11_NextZoneFollowsOrder ==
  /\ []((sel.kind = "next_zone" /\ sel.called) =>
          /\ \A i \in 1..Len(ZONE_ORDER) :
                sel.current = ZONE_ORDER[i] =>
                  /\ i < Len(ZONE_ORDER) => sel.result = ZONE_ORDER[i + 1]
                  /\ (sel.result = None) <=> (i = Len(ZONE_ORDER))
          /\ (\A i \in 1..Len(ZONE_ORDER) : sel.current # ZONE_ORDER[i])
                => sel.result = None)
  /\ [][sel.kind = "next_zone" =>
          /\ UNCHANGED <<data, session_state, ui>>
          /\ sel'.current = sel.current]_vars

\* next_zone called on the zone before the last
C11_Witness ==
  /\ sel.kind = "next_zone"
  /\ sel.called
  /\ sel.current = ZONE_ORDER[Len(ZONE_ORDER) - 1]
  /\ sel.result = ZONE_ORDER[Len(ZONE_ORDER)]

\* the realm of the call has a traits mapping and a realm_state
WellFormedCall ==
  /\ "traits" \in DOMAIN sel.realm /\ DOMAIN sel.realm.traits # {}
  /\ "realm_state" \in DOMAIN sel.realm /\ DOMAIN sel.realm.realm_state # {}

\* the effect of the call grants a trait, a companion
GrantsTrait == "trait" \in DOMAIN sel.effects /\ sel.effects.trait # ""
GrantsNpc == "npc" \in DOMAIN sel.effects /\ DOMAIN sel.effects.npc # {}

\* the companions of a realm
NpcOf(realm) == Get(realm.realm_state, "npc", <<>>)

\* realm after differs from realm before in at most the trait name
SameButTrait(before, after, name) ==
  /\ DOMAIN after = DOMAIN before
  /\ \A k \in DOMAIN before \ {"traits", "realm_state"} : after[k] = before[k]
  /\ DOMAIN after.traits = DOMAIN before.traits \cup {name}
  /\ \A k \in DOMAIN before.traits \ {name} : after.traits[k] = before.traits[k]
  /\ DOMAIN after.realm_state \ {"npc"} = DOMAIN before.realm_state \ {"npc"}
  /\ \A k \in DOMAIN before.realm_state \ {"npc"} :
        after.realm_state[k] = before.realm_state[k]

\* C12: a trait-granting effect applied to a well-formed realm is idempotent:
\* after one and after two applications the trait is true, every other
\* trait, the completed quests and the zone are as before, and, the effect
\* granting no companion, the companions are as before and the realm after
\* two applications is the realm after one.
C12_TraitEffectIdempotent ==
  (sel.kind = "effects" /\ sel.called /\ WellFormedCall /\ GrantsTrait) =>
    /\ sel.once.traits[sel.effects.trait] = TRUE
    /\ sel.twice.traits[sel.effects.trait] = TRUE
    /\ SameButTrait(sel.realm, sel.once, sel.effects.trait)
    /\ SameButTrait(sel.realm, sel.twice, sel.effects.trait)
    /\ sel.twice.traits = sel.once.traits
    /\ ~GrantsNpc =>
         /\ sel.once.realm_state = sel.realm.realm_state
         /\ sel.twice = sel.once

\* a trait that was false is granted, with nothing else in the effect
C12_Witness ==
  /\ sel.kind = "effects"
  /\ sel.called
  /\ WellFormedCall
  /\ sel.effects = [trait |-> "kind"]
  /\ "kind" \in DOMAIN sel.realm.traits
  /\ sel.realm.traits["kind"] = FALSE
  /\ sel.once.traits["kind"] = TRUE
  /\ sel.twice = sel.once

\* C13: a companion-granting effect applied to a well-formed realm is not
\* idempotent: each application appends the companion at the end of
\* realm_state.npc, so two applications lengthen the list by two, and the
\* entries that were there stay, in their order, duplicates included.
C13_NpcEffectAppends ==
  (sel.kind = "effects" /\ sel.called /\ WellFormedCall /\ GrantsNpc) =>
    /\ NpcOf(sel.once) = Append(NpcOf(sel.realm), sel.effects.npc)
    /\ NpcOf(sel.twice) = Append(NpcOf(sel.once), sel.effects.npc)
    /\ Len(NpcOf(sel.twice)) = Len(NpcOf(sel.realm)) + 2
    /\ SubSeq(NpcOf(sel.twice), 1, Len(NpcOf(sel.realm))) = NpcOf(sel.realm)
    /\ sel.twice # sel.once

\* the companion the realm already has is granted twice more
C13_Witness ==
  /\ sel.kind = "effects"
  /\ sel.called
  /\ WellFormedCall
  /\ GrantsNpc
  /\ Len(NpcOf(sel.realm)) = 1
  /\ NpcOf(sel.realm)[1] = sel.effects.npc
  /\ NpcOf(sel.twice) = <<sel.effects.npc, sel.effects.npc, sel.effects.npc>>

\* C21: on a realm that has no traits or no realm_state - the key missing or
\* its dict empty - _apply_effects_to_realm leaves the realm as it is,
\* whatever the effects: no trait set, no companion appended, applied once
\* or twice.
C21_MalformedRealmUntouched ==
  (sel.kind = "effects" /\ sel.called
     /\ (\/ "traits" \notin DOMAIN sel.realm
         \/ "realm_state" \notin DOMAIN sel.realm
         \/ sel.realm.traits = EmptyDict
         \/ sel.realm.realm_state = EmptyDict)) =>
    /\ sel.once = sel.realm
    /\ sel.twice = sel.realm

\* a trait and a companion are granted to a realm with traits and an empty
\* realm_state
C21_Witness ==
  /\ sel.kind = "effects"
  /\ sel.called
  /\ GrantsTrait /\ GrantsNpc
  /\ "traits" \in DOMAIN sel.realm
  /\ sel.realm.traits = [kind |-> FALSE]
  /\ "realm_state" \in DOMAIN sel.realm
  /\ sel.realm.realm_state = EmptyDict
  /\ sel.effects.trait = "kind"
  /\ sel.once = sel.realm

----------------------------------------------------------------------------
(* Claims about realm creation (Spec) *)

\* the trait names the quests of the catalog grant
CatalogTraits ==
  UNION {{q.choices[c].effects.trait :
            c \in {c \in 1..Len(q.choices) :
                      "trait" \in DOMAIN Get(q.choices[c], "effects", EmptyDict)}} :
         q \in CatalogQuests}

\* the trait names create_realm_form knows
Vocabulary ==
  {trait_options[i] : i \in 1..Len(trait_options)}
    \cup {more_traits[i] : i \in 1..Len(more_traits)}

----------------------------------------------------------------------------
(* The minigames called directly, run after run, on one st.session_state:  *)
(* Init draws the challenge, each action is one call with the inputs of    *)
(* one script run.                                                         *)

\* the challenges: the minigames of the catalog under the key prefixes
\* run_quest gives them, an unscramble challenge with no words, and the
\* puzzle; the reflex challenge is played under two prefixes at once
ProbeGames ==
  {[kind |-> "unscramble", keys |-> {"mg_lost_creature"},
    words |-> << <<"h", "e", "r", "b", "s">>, <<"b", "r", "e", "a", "d">>,
                 <<"g", "r", "a", "i", "n">> >>],
   [kind |-> "unscramble", keys |-> {"mg_hidden_path"},
    words |-> << <<"v", "i", "n", "e">>, <<"l", "e", "a", "f">>, <<"r", "o", "o", "t">> >>],
   [kind |-> "unscramble", keys |-> {"mg_no_words"}, words |-> <<>>],
   [kind |-> "reflex", keys |-> {"mg_arcane_rhythm", "mg_other"}, words |-> <<>>],
   [kind |-> "puzzle", keys |-> {"mg_puzzle"}, words |-> PuzzleWords]}

\* no call yet
NoInput == [word |-> <<>>, scrambled |-> <<>>, answer |-> <<>>, pressed |-> FALSE, now |-> 0]

InitMinigames ==
  /\ data = [realms |-> <<>>]
  /\ session_state = [k \in {"signed_in"} |-> TRUE]
  /\ ui = Blank
  /\ sel \in {g @@ [called |-> FALSE, key_prefix |-> None, inp |-> NoInput,
                     before |-> [k \in {"signed_in"} |-> TRUE], result |-> None] :
                g \in ProbeGames}

\* the record of a call: its key prefix, its inputs, st.session_state before
\* it, and its result
Called(key_prefix, inp, result) ==
  [sel EXCEPT !.called = TRUE, !.key_prefix = key_prefix, !.inp = inp,
              !.before = session_state, !.result = result]

\* the inputs of a call of unscramble_game with an empty word list
NoWordInputs ==
  {[NoInput EXCEPT !.answer = a, !.pressed = p] :
     a \in {<<>>, <<"t", "o", "a", "s", "t">>}, p \in BOOLEAN}

CallUnscramble ==
  /\ sel.kind = "unscramble"
  /\ \E key_prefix \in sel.keys :
       \E inp \in IF Len(sel.words) = 0 THEN NoWordInputs
                   ELSE MinigameInputs(session_state,
                          [type |-> "unscramble", words |-> sel.words], key_prefix) :
         LET out == unscramble_game(session_state, sel.words, key_prefix, inp)
         IN /\ session_state' = out.ss
            /\ sel' = Called(key_prefix, inp, out.result)
  /\ UNCHANGED <<data, ui>>

CallReflex ==
  /\ sel.kind = "reflex"
  /\ \E key_prefix \in sel.keys :
       \E inp \in MinigameInputs(session_state, [type |-> "reflex"], key_prefix) :
         LET out == reflex_game(session_state, key_prefix, inp)
         IN /\ session_state' = out.ss
            /\ sel' = Called(key_prefix, inp, out.result)
  /\ UNCHANGED <<data, ui>>

CallPuzzle ==
  /\ sel.kind = "puzzle"
  /\ \E key_prefix \in sel.keys :
       \E inp \in MinigameInputs(session_state, [type |-> "puzzle"], key_prefix) :
         LET out == puzzle_game(session_state, key_prefix, inp)
         IN /\ session_state' = out.ss
            /\ sel' = Called(key_prefix, inp, out.result)
  /\ UNCHANGED <<data, ui>>

NextMinigames == CallUnscramble \/ CallReflex \/ CallPuzzle

SpecMinigames == InitMinigames /\ [][NextMinigames]_vars

----------------------------------------------------------------------------
(* Claims about the minigames (SpecMinigames) *)

\* the keys of a challenge under a key prefix
WordKey(key_prefix) == key_prefix \o "_word"
ScrambledKey(key_prefix) == key_prefix \o "_scrambled"
StageKey(key_prefix) == key_prefix \o "_stage"
StartTimeKey(key_prefix) == key_prefix \o "_start_time"

\* two characters are the same letter, whatever their case
SameLetter(a, b) ==
  \/ a = b
  \/ \E n \in 1..Len(LOWERCASE) : {a, b} = {LOWERCASE[n], UPPERCASE[n]}

\* answer is word between blanks, letter for letter whatever the case
MatchesWord(answer, word) ==
  \E lead \in 0..Len(answer) :
    /\ lead + Len(word) <= Len(answer)
    /\ \A i \in 1..lead : answer[i] \in WHITESPACE
    /\ \A i \in 1..Len(word) : SameLetter(answer[lead + i], word[i])
    /\ \A i \in (lead + Len(word) + 1)..Len(answer) : answer[i] \in WHITESPACE

\* the word of the challenge of the last call: the one stored before the
\* call, else the one the call drew
ChosenWord ==
  IF WordKey(sel.key_prefix) \in DOMAIN sel.before
  THEN sel.before[WordKey(sel.key_prefix)]
  ELSE sel.inp.word

\* C15: an unscramble challenge over a non-empty word list keeps the word
\* chosen by the first call, a word of the list, through every call that
\* returns None; a call without submission returns None, a submission that
\* is the chosen word after trimming whitespace and whatever the case returns
\* True and any other returns False, and a call that returns True or False
\* ends the challenge: its word is stored no longer.
C15_UnscrambleResolution ==
  (sel.kind \in {"unscramble", "puzzle"} /\ Len(sel.words) > 0) =>
    /\ WordKey(sel.key_prefix) \in DOMAIN session_state =>
          InList(session_state[WordKey(sel.key_prefix)], sel.words)
    /\ sel.called =>
          /\ InList(ChosenWord, sel.words)
          /\ IF ~sel.inp.pressed
             THEN /\ sel.result = None
                  /\ session_state[WordKey(sel.key_prefix)] = ChosenWord
                  /\ ScrambledKey(sel.key_prefix) \in DOMAIN sel.before =>
                       session_state[ScrambledKey(sel.key_prefix)]
                         = sel.before[ScrambledKey(sel.key_prefix)]
             ELSE /\ sel.result = (IF MatchesWord(sel.inp.answer, ChosenWord)
                                    THEN "True" ELSE "False")
                  /\ WordKey(sel.key_prefix) \notin DOMAIN session_state

\* the word kept through a call without submission is submitted in capitals
\* between blanks, and accepted
C15_Witness ==
  /\ sel.kind = "unscramble"
  /\ sel.called
  /\ WordKey(sel.key_prefix) \in DOMAIN sel.before
  /\ sel.inp.pressed
  /\ sel.inp.answer # ChosenWord
  /\ sel.result = "True"

\* the stage of the reflex challenge of the last call, before and after it
StageBefore == Get(sel.before, StageKey(sel.key_prefix), "ready")
StageAfter == Get(session_state, StageKey(sel.key_prefix), "ready")

\* C16: the reflex challenge of a key is in stage ready or go; a call
\* returns True or False only when its button is pressed in stage go, and
\* then True exactly when the time since the start is below the limit,
\* and the stage is ready again; stage go is entered only by a call with the
\* button pressed in stage ready; every other call returns None; the
\* challenge of another key is not touched.
C16_ReflexStages ==
  (sel.kind = "reflex" /\ sel.called) =>
    /\ StageBefore \in {"ready", "go"}
    /\ StageAfter \in {"ready", "go"}
    /\ StageBefore = "go" => StartTimeKey(sel.key_prefix) \in DOMAIN sel.before
    /\ IF StageBefore = "go" /\ sel.inp.pressed
       THEN /\ sel.result = (IF sel.inp.now - sel.before[StartTimeKey(sel.key_prefix)] < 1
                              THEN "True" ELSE "False")
            /\ StageAfter = "ready"
       ELSE /\ sel.result = None
            /\ StageAfter = (IF sel.inp.pressed THEN "go" ELSE StageBefore)
    /\ (StageAfter = "go" /\ StageBefore = "ready") =>
          session_state[StartTimeKey(sel.key_prefix)] = sel.inp.now
    /\ \A other \in sel.keys \ {sel.key_prefix} :
          \A k \in {StageKey(other), StartTimeKey(other)} :
            /\ (k \in DOMAIN session_state) = (k \in DOMAIN sel.before)
            /\ k \in DOMAIN sel.before => session_state[k] = sel.before[k]

\* a click one second after the start fails
C16_Witness ==
  /\ sel.kind = "reflex"
  /\ sel.called
  /\ StageBefore = "go"
  /\ sel.inp.pressed
  /\ sel.inp.now - sel.before[StartTimeKey(sel.key_prefix)] = 1
  /\ sel.result = "False"
  /\ StageAfter = "ready"

\* C17: once a call of a minigame has returned True or False, nothing of the
\* challenge is stored under its key: no word, no scrambled word, no stage,
\* no start time.
C17_StateReclaimed ==
  (sel.called /\ sel.result \in {"True", "False"}) =>
    \A k \in {WordKey(sel.key_prefix), ScrambledKey(sel.key_prefix),
               StageKey(sel.key_prefix), StartTimeKey(sel.key_prefix)} :
      k \notin DOMAIN session_state

\* C17, for unscramble_game and puzzle_game alone
C17_UnscrambleReclaimed ==
  (sel.kind \in {"unscramble", "puzzle"} /\ sel.called
     /\ sel.result \in {"True", "False"}) =>
    DOMAIN session_state = {"signed_in"}

\* C17, what reflex_game leaves: stage ready and the start time of the
\* challenge that ended
C17_ReflexLeftovers ==
  (sel.kind = "reflex" /\ sel.called /\ sel.result \in {"True", "False"}) =>
    /\ session_state[StageKey(sel.key_prefix)] = "ready"
    /\ session_state[StartTimeKey(sel.key_prefix)]
         = sel.before[StartTimeKey(sel.key_prefix)]

----------------------------------------------------------------------------
(* Claims about the errors of the engine (Spec) *)

\* C18: a run that confirms a label of no choice of the quest shown reports
\* the input error and changes nothing: the store and st.session_state are
\* as before, so the quest is not completed and no session is in flight.
C18_InvalidLabelChangesNothing ==
  [][(HasRealm /\ ui'.view = "quest" /\ ui'.confirmed # None
        /\ ~HasChoice(QuestOf(ui'.presented), ui'.confirmed)) =>
       /\ ui'.reports = << Report("error", "Invalid choice selected.") >>
       /\ data' = data
       /\ session_state' = session_state
       /\ ~SessionOpen'
       /\ \A k \in 1..Len(Quests') : Quests'[k] # ui'.presented]_vars

\* a label of no choice was confirmed for the first quest of the village
C18_Witness ==
  /\ HasRealm
  /\ ui.view = "quest"
  /\ ui.presented = "flickering_orb"
  /\ ui.confirmed # None
  /\ ~HasChoice(QuestOf(ui.presented), ui.confirmed)
  /\ Quests = <<>>
  /\ ~SessionOpen

----------------------------------------------------------------------------
(* Claims about a session with another minigame (SpecSession) *)

\* the minigame types run_quest knows
KnownTypes == {"unscramble", "reflex", "puzzle"}

\* the next run of run_quest presents a quest: no session is in flight and
\* the selector has one
CanPresent ==
  /\ HasRealm
  /\ ~InFlight(session_state)
  /\ NextQuest(get_realm_by_user(data, USER_ID)) # NoneDict

\* C19: a run of the engine on a session whose minigame has a type it does
\* not know reports the error and clears the session, and leaves the store
\* as it is: no effect applied, the quest not completed; the next run
\* presents a quest again.
C19_UnknownMinigameClearsSession ==
  [][(SessionOpen /\ ui'.view = "minigame"
        /\ Get(Session.minigame, "type", None) \notin KnownTypes) =>
       /\ ui'.reports = << Report("error", "Unknown minigame type.") >>
       /\ ui'.minigame_result = None
       /\ ~SessionOpen'
       /\ ~InFlight(session_state')
       /\ data' = data
       /\ CanPresent']_vars

\* the session of an unknown type was cleared with nothing completed
C19_Witness ==
  /\ HasRealm
  /\ ui.view = "minigame"
  /\ ui.reports = << Report("error", "Unknown minigame type.") >>
  /\ ~SessionOpen
  /\ "current_quest" \in DOMAIN session_state
  /\ Quests = <<>>
  /\ ~Realm.traits["wise"]

----------------------------------------------------------------------------
(* Claims about failing writes (SpecFail) *)

\* the last report of the run after the step is the exception of the write
WriteFailed ==
  /\ Len(ui'.reports) > 0
  /\ ui'.reports[Len(ui'.reports)] = Report("exception", "OSError")

----------------------------------------------------------------------------
(* Claims about the stored realm (Spec) *)

\* the names of the zones of the registry
Zones == {ZONE_ORDER[i] : i \in 1..Len(ZONE_ORDER)}

\* C22: the zone of every stored realm is a zone of ZONE_ORDER, whatever
\* runs of realm creation, quests, minigames and unlocks came before.
C22_ZoneInRegistry ==
  \A i \in 1..Len(data.realms) : data.realms[i].realm_state.zone \in Zones

\* a realm that was advanced twice and then completed a quest
C22_Witness ==
  /\ HasRealm
  /\ Zone = "temple"
  /\ Len(Quests) > 0

\* C23: the traits mapping of every stored realm has exactly the trait names
\* of the vocabulary as keys, every trait a choice of the catalog grants
\* being one of them.
C23_TraitKeysAreVocabulary ==
  /\ CatalogTraits \subseteq Vocabulary
  /\ \A i \in 1..Len(data.realms) : DOMAIN data.realms[i].traits = Vocabulary

\* a quest granted a trait that the realm form does not offer
C23_Witness ==
  /\ HasRealm
  /\ Realm.traits["hothead"]
  /\ Len(Quests) > 0

\* what an effects payload grants is in the realm: its trait is true, its
\* companion is in the list
EffectsPresent(realm, effects) ==
  /\ "trait" \in DOMAIN effects =>
       (effects.trait \in DOMAIN realm.traits /\ realm.traits[effects.trait])
  /\ "npc" \in DOMAIN effects => InList(effects.npc, realm.realm_state.npc)

\* the effects payloads of the choices of the quest of an id
ChoiceEffects(id) ==
  {Get(QuestOf(id).choices[c], "effects", EmptyDict) : c \in 1..Len(QuestOf(id).choices)}

\* C24: a quest id is in the completed list of the stored realm only with
\* the effects of a choice of that quest in the realm: the write that adds
\* the id applies the effects of one of the quest's choices, and in every
\* state each completed quest has a choice whose trait is true and whose
\* companion is in the list.
C24_CompletedAfterEffects ==
  /\ [](HasRealm =>
          \A k \in 1..Len(Quests) :
            \E effects \in ChoiceEffects(Quests[k]) : EffectsPresent(Realm, effects))
  /\ [][(HasRealm /\ HasRealm' /\ Quests' # Quests) =>
          \E q \in CatalogQuests :
            /\ Quests' = Quests \o <<q.id>>
            /\ \E effects \in ChoiceEffects(q.id) :
                 /\ Realm'.traits = Granted(Realm.traits, effects)
                 /\ Npc' = Joined(Npc, effects)
                 /\ EffectsPresent(Realm', effects)]_vars

\* both quests of the village completed, each with a companion
C24_Witness ==
  /\ HasRealm
  /\ Quests = <<"flickering_orb", "lost_creature">>
  /\ Len(Npc) = 2
  /\ ui.view = "minigame"

\* C25: once stored a realm is never removed and its id, user_id,
\* realm_type and resources never change; a run of the quest engine changes
\* at most traits, companions and completed quests, a run that unlocks
\* changes at most the zone.
C25_RealmFrame ==
  [][HasRealm =>
       /\ Len(data'.realms) = Len(data.realms)
       /\ DOMAIN Realm' = DOMAIN Realm
       /\ Realm'.id = Realm.id
       /\ Realm'.user_id = Realm.user_id
       /\ Realm'.realm_type = Realm.realm_type
       /\ DOMAIN Realm'.realm_state = DOMAIN Realm.realm_state
       /\ Realm'.realm_state.resources = Realm.realm_state.resources
       /\ Realm' # Realm =>
            \/ /\ ui'.view \in {"quest", "minigame"}
               /\ Zone' = Zone
               /\ Quests' # Quests \/ Realm'.traits # Realm.traits \/ Npc' # Npc
            \/ /\ ui'.view = "dashboard"
               /\ Zone' # Zone
               /\ Realm'.traits = Realm.traits /\ Npc' = Npc /\ Quests' = Quests]_vars

\* a realm that was advanced and then changed by a quest
C25_Witness ==
  /\ HasRealm
  /\ Realm.realm_type = "Shadow"
  /\ Zone = "forest"
  /\ Quests = <<"whispers_in_trees">>
  /\ Len(Npc) = 1

----------------------------------------------------------------------------
(* Claims about the catalog and the course of the game (Spec) *)

\* the length of the longest quest list of the catalog
LongestZone ==
  CHOOSE n \in 0..9 :
    /\ \A z \in DOMAIN QUESTS : Len(QUESTS[z]) <= n
    /\ \E z \in DOMAIN QUESTS : Len(QUESTS[z]) = n

\* the places <<zone, index>> of the catalog where the quest has the id
PlacesOf(id) ==
  {p \in (DOMAIN QUESTS) \X (1..LongestZone) :
     p[2] <= Len(QUESTS[p[1]]) /\ QUESTS[p[1]][p[2]].id = id}

\* C26: no two quests of the catalog, in one zone or in two, have the same
\* id: every id of the catalog, every id of the completed list and the id
\* of the session in flight, from which the minigame's key is made, is the
\* id of exactly one quest, the session's in the zone the session records.
C26_QuestIdsUnique ==
  /\ \A z \in DOMAIN QUESTS : \A i \in 1..Len(QUESTS[z]) :
       PlacesOf(QUESTS[z][i].id) = {<<z, i>>}
  /\ HasRealm => \A k \in 1..Len(Quests) : Cardinality(PlacesOf(Quests[k])) = 1
  /\ SessionOpen =>
       /\ Cardinality(PlacesOf(Session.quest_id)) = 1
       /\ \A p \in PlacesOf(Session.quest_id) : p[1] = Session.zone

\* a session in flight for the second quest of the village, the first
\* being completed
C26_Witness ==
  /\ HasRealm
  /\ SessionOpen
  /\ Session.quest_id = "lost_creature"
  /\ Quests = <<"flickering_orb">>

\* every quest of the realm's zone is in the completed list
ZoneQuestsDone ==
  \A i \in 1..Len(QUESTS[Zone]) : InList(QUESTS[Zone][i].id, Quests)

\* the realm is in the last zone with every quest of every zone completed
GameCompleted ==
  /\ HasRealm
  /\ Zone = ZONE_ORDER[Len(ZONE_ORDER)]
  /\ \A q \in CatalogQuests : InList(q.id, Quests)

\* C27: the game can be played to its end; in particular, whenever every
\* quest of a zone that is not the last is completed, a run of the dashboard
\* can unlock the next zone.
C27_UnlockPossibleWhenZoneDone ==
  (HasRealm /\ Zone # ZONE_ORDER[Len(ZONE_ORDER)] /\ ZoneQuestsDone) =>
    ENABLED (UnlockNextZone /\ data' # data)

\* C27, what holds instead: no run changes the zone of a realm that has
\* completed a quest, and the game is never completed
C27_NoUnlockAfterAnyQuest ==
  /\ [][(HasRealm /\ Len(Quests) > 0) => Zone' = Zone]_vars
  /\ []~GameCompleted

\* C28: while a session is in flight its recorded zone is the zone of the
\* stored realm, and the run that resolves its minigame completes a quest of
\* the realm's zone.
C28_SessionZoneIsRealmZone ==
  /\ []((HasRealm /\ SessionOpen) => Session.zone = Zone)
  /\ [][(HasRealm /\ SessionOpen /\ ui'.view = "minigame"
           /\ ui'.minigame_result = "True") =>
          \E i \in 1..Len(QUESTS[Zone']) : QUESTS[Zone'][i].id = Session.quest_id]_vars

\* C28, what holds instead: the recorded zone is the zone of the session's
\* quest in the catalog, and the realm's zone is that zone or a later one
C28_SessionZoneNotAhead ==
  (HasRealm /\ SessionOpen) =>
    /\ \A p \in PlacesOf(Session.quest_id) : p[1] = Session.zone
    /\ ZoneIndex(Session.zone) <= ZoneIndex(Zone)

\* C29: the completed list of the stored realm never holds the same quest id
\* twice, whatever the order of immediate choices, minigame successes and
\* failures, and unlockings.
C29_NoDuplicateCompleted ==
  HasRealm => \A i, j \in 1..Len(Quests) : Quests[i] = Quests[j] => i = j

\* a minigame success has just put a second quest on the completed list
C29_Witness ==
  /\ HasRealm
  /\ Len(Quests) >= 2
  /\ ui.view = "minigame"
  /\ ui.minigame_result = "True"

\* C30: every change of the stored realm's zone replaces the zone at index i
\* of ZONE_ORDER by the zone at index i+1, and no run of a quest or of a
\* minigame changes the zone.
C30_ZoneMovesForwardByOne ==
  [][(HasRealm /\ HasRealm') =>
       /\ (Zone' # Zone) =>
            /\ ZoneIndex(Zone) \in 1..(Len(ZONE_ORDER) - 1)
            /\ Zone' = ZONE_ORDER[ZoneIndex(Zone) + 1]
       /\ (ui'.view \in {"quest", "minigame"}) => Zone' = Zone]_vars

\* the realm has just been moved from the village to the forest
C30_Witness ==
  /\ HasRealm
  /\ Zone = "forest"
  /\ ui.view = "dashboard"
  /\ \E k \in 1..Len(ui.reports) : ui.reports[k].text = "You travel to the Forest!"

\* the traits of a realm that are true
TrueTraits(realm) == {t \in DOMAIN realm.traits : realm.traits[t]}

\* C31: traits are monotone: in every step of the game each trait key of the
\* stored realm is kept and each trait that is true stays true, whether the
\* step applies the effects of an immediate choice, of a minigame won or
\* lost, or moves the realm to the next zone.
C31_TraitsMonotone ==
  [][(HasRealm /\ HasRealm') =>
       /\ DOMAIN Realm.traits \subseteq DOMAIN Realm'.traits
       /\ TrueTraits(Realm) \subseteq TrueTraits(Realm')]_vars

\* C31 for the function alone: whatever the effects, applied once or twice
\* to a realm with traits and a realm_state, every trait key is kept and
\* every true trait stays true
C31_EffectsKeepTraits ==
  (sel.kind = "effects" /\ sel.called /\ WellFormedCall) =>
    /\ DOMAIN sel.realm.traits \subseteq DOMAIN sel.once.traits
    /\ TrueTraits(sel.realm) \subseteq TrueTraits(sel.once)
    /\ TrueTraits(sel.once) \subseteq TrueTraits(sel.twice)

\* a realm moved on from the village has been granted a trait on top of the
\* three chosen at its creation
C31_Witness ==
  /\ HasRealm
  /\ Zone # "village"
  /\ Cardinality(TrueTraits(Realm)) >= 4
  /\ ui.view \in {"quest", "minigame"}

====
